---- MODULE Spec2Model ----
(***************************************************************************)
(* Model of the student-loan repayment simulator: helpers.py,              *)
(* calculations.py, annual_monthly_transformers.py and simulation.py.      *)
(*                                                                         *)
(* Numbers.  A Python float x is modelled by the integer nearest to        *)
(* x * SCALE, kept to MantissaBits significant bits: the result of every   *)
(* float operation (sum, difference, product, quotient) is rounded to the  *)
(* nearest such number, ties to even, as IEEE arithmetic rounds the result *)
(* of every operation to its 53 significant bits.  Annual salaries are     *)
(* Python ints (pounds) and stay plain integers.                           *)
(*                                                                         *)
(* Lists.  A Python list is a sequence; index 0 of the code is index 1     *)
(* here.  The caller's list objects are variables, so that the in-place    *)
(* "+=" of the code is an assignment to them.                              *)
(***************************************************************************)
EXTENDS Integers, Sequences, FiniteSets, TLC

\* Grid units per 1.0 of a modelled float.
SCALE == 10000

\* Significant bits of a modelled float.
MantissaBits == 23

\* ------------------------------------------------------------------------
\* Arithmetic on the grid
\* ------------------------------------------------------------------------

Min(a, b) == IF a <= b THEN a ELSE b
Max(a, b) == IF a >= b THEN a ELSE b

\* a / n rounded to the nearest integer (n > 0).
RoundDiv(a, n) == (2 * a + n) \div (2 * n)

\* The spacing of the floats around a >= 0: the least power of two u with
\* a < 2^MantissaBits * u.
RECURSIVE UlpFrom(_, _)
UlpFrom(a, u) == IF a \div u < 2^MantissaBits THEN u ELSE UlpFrom(a, 2 * u)

\* a >= 0 rounded to the nearest float, ties to the even significand.
FlAbs(a) ==
    LET u == UlpFrom(a, 1)
        q == a \div u
        r == a % u
    IN  IF 2 * r < u THEN q * u
        ELSE IF 2 * r > u THEN (q + 1) * u
        ELSE IF q % 2 = 0 THEN q * u
        ELSE (q + 1) * u

\* x rounded to the nearest float.
Fl(x) == IF x >= 0 THEN FlAbs(x) ELSE 0 - FlAbs(0 - x)

\* float + float and float - float.
FAdd(a, b) == Fl(a + b)
FSub(a, b) == Fl(a - b)

\* float * float: the product of two grid numbers.  Split so that no
\* intermediate product leaves the 32-bit integers.
FMul(a, b) == Fl((a \div SCALE) * b + RoundDiv((a % SCALE) * b, SCALE))

\* float * n for a small whole-valued float n (3.0, 9.0).
FTimes(a, n) == Fl(a * n)

\* int / int as a float (Python true division of two integers).
FRatio(a, n) == Fl(RoundDiv(a * SCALE, n))

\* float / int (a float divided by an integer literal).
FDiv(a, n) == Fl(RoundDiv(a, n))

\* n copies of v: the Python expression n * [v] (empty when n <= 0).
Rep(n, v) == [j \in 1..n |-> v]

\* ------------------------------------------------------------------------
\* calculations.py
\* ------------------------------------------------------------------------

LOWER_INCOME_THRESHOLD == 27295
UPPER_INCOME_THRESHOLD == 49130
INTEREST_PREMIUM == 3
STUDENT_TAX == 9

\* An optional float: <<>> is the Python value None, <<c>> the float c.
None == << >>

\* calculate_annual_interest_rate(base_salary, rpi, max_interest_cap):
\* the rate in percent, as a grid number.
calculate_annual_interest_rate(base_salary, rpi, max_interest_cap) ==
    LET premium == IF base_salary > LOWER_INCOME_THRESHOLD
                   THEN FTimes(Min(SCALE, FRatio(base_salary - LOWER_INCOME_THRESHOLD,
                                                 UPPER_INCOME_THRESHOLD - LOWER_INCOME_THRESHOLD)),
                               INTEREST_PREMIUM)
                   ELSE 0
        interest_rate == IF base_salary > LOWER_INCOME_THRESHOLD
                         THEN FAdd(rpi, premium)
                         ELSE rpi
    IN  IF max_interest_cap # None
        THEN Min(interest_rate, max_interest_cap[1])
        ELSE interest_rate

\* calculate_monthly_installment with max(0, .) left out: the taxable
\* salary may be negative.
installment_no_floor(monthly_salary) ==
    FDiv(FTimes(FSub(monthly_salary, FRatio(LOWER_INCOME_THRESHOLD, 12)), STUDENT_TAX), 100)

\* calculate_monthly_installment charging the whole salary, not the part
\* above the threshold.
installment_no_threshold(monthly_salary) ==
    FDiv(FTimes(Max(0, monthly_salary), STUDENT_TAX), 100)

\* calculate_monthly_installment(monthly_salary)
calculate_monthly_installment(monthly_salary) ==
    LET taxable_salary == Max(0, FSub(monthly_salary, FRatio(LOWER_INCOME_THRESHOLD, 12)))
    IN  FDiv(FTimes(taxable_salary, STUDENT_TAX), 100)

\* calculate_monthly_interest(total_balance, monthly_interest)
calculate_monthly_interest(total_balance, monthly_interest) ==
    FDiv(FMul(total_balance, monthly_interest), 100)

\* ------------------------------------------------------------------------
\* helpers.py
\* ------------------------------------------------------------------------

\* A month reference is a Python int or a Python str.
MonthInt(n) == [kind |-> "int", num |-> n, name |-> ""]
MonthStr(s) == [kind |-> "str", num |-> 0, name |-> s]

\* The full month names datetime.strptime(s, "%B") recognises (it matches
\* them without regard to case; the names are kept in lower case here).
MonthNames == << "january", "february", "march", "april", "may", "june",
                 "july", "august", "september", "october", "november",
                 "december" >>

\* strptime raises ValueError on any other string.
IsMonthName(s) == \E n \in 1..12 : MonthNames[n] = s

\* datetime.strptime(s, "%B").month
strptime_B_month(s) == CHOOSE n \in 1..12 : MonthNames[n] = s

\* The month reference can be normalised (no ValueError).
MonthOk(m) == m.kind = "int" \/ IsMonthName(m.name)

\* isinstance(m, str) ? strptime(m, "%B").month : m
MonthNumber(m) == IF m.kind = "str" THEN strptime_B_month(m.name) ELSE m.num

\* calculate_months_difference without the rule of lines 27-28.
months_difference_zero(current_month, target_month) ==
    (MonthNumber(target_month) - MonthNumber(current_month)) % 12

\* calculate_months_difference(current_month, target_month)
calculate_months_difference(current_month, target_month) ==
    LET months_remaining == (MonthNumber(target_month) - MonthNumber(current_month)) % 12
    IN  IF months_remaining = 0 THEN months_remaining + 12 ELSE months_remaining

\* extrapolate_array padding with the first element instead of the last.
extrapolate_array_first(arr, length) ==
    IF Len(arr) < length
    THEN arr \o Rep(length - Len(arr) + 1, arr[1])
    ELSE arr

\* extrapolate_array(arr, length): the value of the list object afterwards
\* (the list is extended in place and returned).  arr must be non-empty
\* when it is shorter than length: arr[-1] raises IndexError otherwise.
extrapolate_array(arr, length) ==
    IF Len(arr) < length
    THEN arr \o Rep(length - Len(arr) + 1, arr[Len(arr)])
    ELSE arr

\* ------------------------------------------------------------------------
\* annual_monthly_transformers.py
\* ------------------------------------------------------------------------

RELIEF_PERDIOD == 30

\* The calendar layout all three transformers build: `months` copies of
\* first, then 12 copies of each element of rest, in order.
MonthlyLayout(months, first, rest) ==
    [k \in 1..(months + 12 * Len(rest)) |->
        IF k <= months THEN first ELSE rest[((k - months - 1) \div 12) + 1]]

\* The annual rates of lines 43-46: one per year 0..RELIEF_PERDIOD, from the
\* extrapolated vectors.
annual_interest_rates(annual_salaries, annual_rpis) ==
    [y \in 1..(RELIEF_PERDIOD + 1) |->
        calculate_annual_interest_rate(annual_salaries[y], annual_rpis[y], None)]

\* get_monthly_interest_rate_array: the returned list, given the vectors as
\* the caller passed them.
get_monthly_interest_rate_array(annual_salaries, annual_rpis, current_month) ==
    LET sal   == extrapolate_array(annual_salaries, RELIEF_PERDIOD + 1)
        rpis  == extrapolate_array(annual_rpis, RELIEF_PERDIOD + 1)
        rates == annual_interest_rates(sal, rpis)
        months_to_sept == calculate_months_difference(current_month, MonthStr("september"))
    IN  MonthlyLayout(months_to_sept, FDiv(rates[1], 12),
                      [y \in 1..(Len(rates) - 1) |-> FDiv(rates[y + 1], 12)])

\* The in-place extension of lines 77-78 of get_monthly_salary_array.
salary_array_extend(annual_salaries) ==
    IF Len(annual_salaries) < RELIEF_PERDIOD + 1
    THEN annual_salaries \o Rep(RELIEF_PERDIOD - Len(annual_salaries) + 1,
                                annual_salaries[Len(annual_salaries)])
    ELSE annual_salaries

\* get_monthly_salary_array(annual_salaries, current_month, salary_revision_month)
get_monthly_salary_array(annual_salaries, current_month, salary_revision_month) ==
    LET sal == salary_array_extend(annual_salaries)
        months_to_pay_review == calculate_months_difference(current_month, salary_revision_month)
    IN  MonthlyLayout(months_to_pay_review, FRatio(sal[1], 12),
                      [y \in 1..(Len(sal) - 1) |-> FRatio(sal[y + 1], 12)])

\* The running products of s[lo..hi], continuing from the product `before`
\* of the elements ahead of lo (s[lo] itself when lo = 1).  The range is
\* halved so that the evaluation stays shallow.
RECURSIVE cumprod_range(_, _, _, _)
cumprod_range(s, lo, hi, before) ==
    IF lo > hi THEN << >>
    ELSE IF lo = hi THEN << IF lo = 1 THEN s[1] ELSE FMul(before, s[lo]) >>
    ELSE LET mid   == (lo + hi) \div 2
             left  == cumprod_range(s, lo, mid, before)
         IN  left \o cumprod_range(s, mid + 1, hi, left[Len(left)])

\* numpy.cumprod of a list of floats.
cumprod(s) == cumprod_range(s, 1, Len(s), 0)

\* get_monthly_discount_factor(annual_rpis, current_month)
get_monthly_discount_factor(annual_rpis, current_month) ==
    LET rpis == extrapolate_array(annual_rpis, RELIEF_PERDIOD + 1)
        months_to_sept == calculate_months_difference(current_month, MonthStr("september"))
        monthly_rpis == MonthlyLayout(months_to_sept, FDiv(rpis[1], 12),
                            [y \in 1..(Len(rpis) - 1) |-> FDiv(rpis[y + 1], 12)])
        factors == [k \in 1..Len(monthly_rpis) |-> FAdd(SCALE, FDiv(monthly_rpis[k], 100))]
    IN  cumprod(factors)

\* ------------------------------------------------------------------------
\* Inputs
\* ------------------------------------------------------------------------

\* Longest horizon, in months, of the exhaustively varied simulations.
MaxMonths == 3

\* The float nearest to n pounds, and to n hundredths of a percent.
Pounds(n) == Fl(n * SCALE)
Hundredths(n) == Fl((n * SCALE) \div 100)

\* The default of months_to_relief.
DefaultMonthsToRelief == 360

\* A horizon longer than any monthly series (12 + 12 * RELIEF_PERDIOD at most).
LongHorizon == 12 * RELIEF_PERDIOD + 13

Loans == { 0, Pounds(50), Pounds(40000), Pounds(150000) }

SalaryVectors == { << >>, << 30000 >>, << 60000, 20000 >>,
                   Rep(RELIEF_PERDIOD + 2, 27296) }

RpiVectors == { << >>, << Hundredths(200) >>, << Hundredths(0) >>,
                << Hundredths(-100), Hundredths(500) >> }

Months == { MonthInt(3), MonthStr("august"), MonthStr("sept") }

AllMonths == { MonthInt(n) : n \in 1..12 }
                 \cup { MonthStr(MonthNames[n]) : n \in 1..12 }
                 \cup { MonthStr("sept") }

EmptyMap == [k \in {} |-> 0]

\* The discretionary repayment maps a caller passes explicitly.
DiscMaps == { [k \in {1} |-> Pounds(100)],
              [k \in {0} |-> Pounds(-30)] }

\* The representative scenario of the documentation: constant salary 30000,
\* constant RPI 2%, balance 40000, no discretionary repayments.
Representative(loan, sal, rpis, month, disc) ==
    /\ loan = Pounds(40000)
    /\ sal # << >> /\ \A y \in 1..Len(sal) : sal[y] = 30000
    /\ rpis # << >> /\ \A y \in 1..Len(rpis) : rpis[y] = Hundredths(200)
    /\ month \in { MonthInt(n) : n \in 1..12 }
    /\ disc = EmptyMap

\* ------------------------------------------------------------------------
\* State
\* ------------------------------------------------------------------------

VARIABLES
    pc,                        \* "idle", "loop", "IndexError", "ValueError"
    annual_salaries,           \* the caller's list object of annual salaries
    annual_rpis,               \* the caller's list object of annual RPIs
    default_repayments,        \* the dict() object of the default argument
    args,                      \* the arguments of the call, as at its entry
    loan_outstanding,          \* simulate_repayment's locals ...
    i,
    discretionary_repayments,
    monthly_salaries,
    monthly_interest_rates,
    monthly_repayments,
    monthly_interest,
    monthly_balance,
    returned,                  \* << >>, or << r >>: what the caller holds of the last
                               \* completed call of simulate_repayment, its arguments
                               \* and the three lists it returned
    transformer_result         \* what the last transformer call returned

vars == << pc, annual_salaries, annual_rpis, default_repayments, args,
           loan_outstanding, i, discretionary_repayments, monthly_salaries,
           monthly_interest_rates, monthly_repayments, monthly_interest,
           monthly_balance, returned, transformer_result >>

locals == << loan_outstanding, i, discretionary_repayments, monthly_salaries,
             monthly_interest_rates, monthly_repayments, monthly_interest,
             monthly_balance >>

NoArgs == [fn |-> "", loan_outstanding |-> 0, annual_rpis |-> << >>,
           annual_salaries |-> << >>, current_month |-> MonthInt(0),
           months_to_relief |-> 0, by_default |-> FALSE,
           discretionary_repayments |-> EmptyMap, same_lists |-> FALSE]

Init ==
    /\ pc = "idle"
    /\ annual_salaries \in SalaryVectors
    /\ annual_rpis \in RpiVectors
    /\ default_repayments = EmptyMap
    /\ args = NoArgs
    /\ loan_outstanding = 0
    /\ i = 0
    /\ discretionary_repayments = EmptyMap
    /\ monthly_salaries = << >>
    /\ monthly_interest_rates = << >>
    /\ monthly_repayments = << >>
    /\ monthly_interest = << >>
    /\ monthly_balance = << >>
    /\ returned = << >>
    /\ transformer_result = << >>

\* ------------------------------------------------------------------------
\* simulation.py
\* ------------------------------------------------------------------------

\* Lines 39-40 of simulate_repayment: the exception raised, if any, and the
\* caller's lists afterwards.  get_monthly_salary_array extends the salaries
\* (IndexError on an empty list) and then normalises the month (ValueError);
\* get_monthly_interest_rate_array then extrapolates both lists (IndexError
\* on an empty RPI list).
EntryException(sal, rpis, month) ==
    IF sal = << >> THEN "IndexError"
    ELSE IF ~MonthOk(month) THEN "ValueError"
    ELSE IF rpis = << >> THEN "IndexError"
    ELSE "none"

EntrySalaries(sal, rpis, month) ==
    IF sal = << >> THEN sal
    ELSE extrapolate_array(salary_array_extend(sal), RELIEF_PERDIOD + 1)

EntryRpis(sal, rpis, month) ==
    IF EntryException(sal, rpis, month) = "none"
    THEN extrapolate_array(rpis, RELIEF_PERDIOD + 1)
    ELSE rpis

\* Line 56-57 with the discretionary amount replacing the installment.
add_discretionary_replacing(installment, month_index, repayments) ==
    IF month_index \in DOMAIN repayments
    THEN repayments[month_index]
    ELSE installment

\* Lines 56-57: the installment with the month's discretionary repayment.
add_discretionary(installment, month_index, repayments) ==
    IF month_index \in DOMAIN repayments
    THEN FAdd(installment, repayments[month_index])
    ELSE installment

\* Line 61 without the cap.
capped_repayment_uncapped(installment, balance, interest) == installment

\* Line 61: the repayment is capped by what is owed.
capped_repayment(installment, balance, interest) ==
    Min(installment, FAdd(balance, interest))

\* Line 62 with the signs of interest and repayment exchanged.
new_balance_sign_slip(balance, interest, repayment) ==
    FAdd(FSub(balance, interest), repayment)

\* Line 62: the balance after the month.
new_balance(balance, interest, repayment) ==
    FSub(FAdd(balance, interest), repayment)

\* The caller invokes simulate_repayment; lines 39-45 run.  A first call
\* passes the caller's lists; a later call repeats the scalar arguments of
\* the call before it and passes either the same list objects or fresh
\* lists equal to those the earlier call was given.
Call ==
    /\ pc = "idle"
    /\ \E loan \in Loans, month \in Months \cup { MonthInt(n) : n \in 1..12 },
          mtr \in (0..MaxMonths) \cup { DefaultMonthsToRelief, LongHorizon },
          by_default \in BOOLEAN, explicit \in DiscMaps, same \in BOOLEAN :
        LET disc == IF by_default THEN default_repayments ELSE explicit
            prev == returned[Len(returned)].args
            sal  == IF same THEN annual_salaries ELSE prev.annual_salaries
            rpis == IF same THEN annual_rpis ELSE prev.annual_rpis
            exc  == EntryException(sal, rpis, month)
        IN  /\ by_default => explicit = CHOOSE d \in DiscMaps : TRUE
            /\ returned = << >> => same
            /\ returned # << >> =>
                  /\ loan = prev.loan_outstanding
                  /\ month = prev.current_month
                  /\ mtr = prev.months_to_relief
            /\ \/ mtr <= MaxMonths /\ month \in Months
               \/ mtr > MaxMonths /\ Representative(loan, sal, rpis, month, disc)
            /\ args' = [fn |-> "simulate_repayment", loan_outstanding |-> loan,
                        annual_rpis |-> rpis, annual_salaries |-> sal,
                        current_month |-> month, months_to_relief |-> mtr,
                        by_default |-> by_default,
                        discretionary_repayments |-> disc, same_lists |-> same]
            /\ annual_salaries' = EntrySalaries(sal, rpis, month)
            /\ annual_rpis' = EntryRpis(sal, rpis, month)
            /\ pc' = IF exc = "none" THEN "loop" ELSE exc
            /\ loan_outstanding' = loan
            /\ i' = 0
            /\ discretionary_repayments' = disc
            /\ monthly_salaries' =
                  IF exc = "none"
                  THEN get_monthly_salary_array(sal, month, MonthStr("april"))
                  ELSE << >>
            /\ monthly_interest_rates' =
                  IF exc = "none"
                  THEN get_monthly_interest_rate_array(salary_array_extend(sal), rpis, month)
                  ELSE << >>
            /\ monthly_repayments' = << >>
            /\ monthly_interest' = << >>
            /\ monthly_balance' = << >>
    /\ UNCHANGED << default_repayments, returned, transformer_result >>

\* One iteration of the loop, lines 49-67.
LoopStep ==
    /\ pc = "loop"
    /\ i < args.months_to_relief
    /\ i < Len(monthly_interest_rates)
    /\ i < Len(monthly_salaries)
    /\ LET interest == calculate_monthly_interest(loan_outstanding,
                                                  monthly_interest_rates[i + 1])
           installment == add_discretionary(
                              calculate_monthly_installment(monthly_salaries[i + 1]),
                              i, discretionary_repayments)
           repayment == capped_repayment(installment, loan_outstanding, interest)
       IN  /\ loan_outstanding' = new_balance(loan_outstanding, interest, repayment)
           /\ monthly_repayments' = Append(monthly_repayments, repayment)
           /\ monthly_interest' = Append(monthly_interest, interest)
           /\ monthly_balance' = Append(monthly_balance, loan_outstanding')
    /\ i' = i + 1
    /\ UNCHANGED << pc, annual_salaries, annual_rpis, default_repayments, args,
                    discretionary_repayments, monthly_salaries,
                    monthly_interest_rates, returned, transformer_result >>

\* Lines 52-53 read past the end of a monthly series: IndexError.
LoopIndexError ==
    /\ pc = "loop"
    /\ i < args.months_to_relief
    /\ \/ i >= Len(monthly_interest_rates)
       \/ i >= Len(monthly_salaries)
    /\ pc' = "IndexError"
    /\ UNCHANGED << annual_salaries, annual_rpis, default_repayments, args,
                    locals, returned, transformer_result >>

\* The locals are dropped and the three lists handed to the caller.
HandBack ==
    /\ returned' = << [args |-> args,
                       monthly_repayments |-> monthly_repayments,
                       monthly_interest |-> monthly_interest,
                       monthly_balance |-> monthly_balance] >>
    /\ pc' = "idle"
    /\ loan_outstanding' = 0
    /\ i' = 0
    /\ discretionary_repayments' = EmptyMap
    /\ monthly_salaries' = << >>
    /\ monthly_interest_rates' = << >>
    /\ monthly_repayments' = << >>
    /\ monthly_interest' = << >>
    /\ monthly_balance' = << >>
    /\ UNCHANGED << annual_salaries, annual_rpis, default_repayments, args,
                    transformer_result >>

\* Return with a loop that also stops once the balance is paid off.
ReturnWhenPaidOff ==
    /\ pc = "loop"
    /\ \/ i >= args.months_to_relief
       \/ i > 0 /\ loan_outstanding = 0
    /\ HandBack

\* Line 69: range(months_to_relief) is exhausted and the three lists are
\* returned to the caller; the locals are discarded.
Return ==
    /\ pc = "loop"
    /\ i >= args.months_to_relief
    /\ HandBack

Next == Call \/ LoopStep \/ LoopIndexError \/ Return

Spec == Init /\ [][Next]_vars

\* ------------------------------------------------------------------------
\* Properties of simulate_repayment (specification Spec)
\* ------------------------------------------------------------------------

\* The months recorded so far by the running call, 1-based.
Recorded == 1..Len(monthly_balance)

\* The balance before recorded month j of the running call.
BalanceBefore(j) == IF j = 1 THEN args.loan_outstanding ELSE monthly_balance[j - 1]

\* The discretionary amount the running call was given for recorded month j.
ExtraOf(j) == IF (j - 1) \in DOMAIN args.discretionary_repayments
              THEN args.discretionary_repayments[j - 1] ELSE 0

\* The installment due on the salary of recorded month j.
SalaryInstallment(j) ==
    FDiv(FTimes(Max(0, FSub(monthly_salaries[j], FRatio(LOWER_INCOME_THRESHOLD, 12))),
                STUDENT_TAX), 100)

\* The running call has recorded every month of its horizon.
Complete == pc = "loop" /\ i = args.months_to_relief

\* C1: for every initial balance >= 0, every interest rate (negative ones
\* included) and every discretionary map, the repayment recorded for a
\* month is at most the balance before the month plus the month's interest,
\* and the balance recorded after every month is >= 0.
C1_BalanceNeverNegative ==
    (pc = "loop" /\ args.loan_outstanding >= 0) =>
        \A j \in Recorded :
            /\ monthly_repayments[j] <= FAdd(BalanceBefore(j), monthly_interest[j])
            /\ monthly_balance[j] >= 0

\* A month in which the cap acted: more was due than was owed.
C1_Witness ==
    /\ pc = "loop"
    /\ \E j \in Recorded :
          /\ BalanceBefore(j) > 0
          /\ FAdd(SalaryInstallment(j), ExtraOf(j)) > FAdd(BalanceBefore(j), monthly_interest[j])
          /\ monthly_repayments[j] = FAdd(BalanceBefore(j), monthly_interest[j])
          /\ monthly_balance[j] = 0

\* A second month in which the cap acted, at a negative interest rate.
C1_WitnessNegativeRate ==
    /\ pc = "loop"
    /\ \E j \in Recorded :
          /\ monthly_interest[j] < 0
          /\ ExtraOf(j) > FAdd(BalanceBefore(j), monthly_interest[j])
          /\ monthly_balance[j] = 0

\* C2: both monthly series built by simulate_repayment have at least
\* months_to_relief entries, whatever horizon is requested, so that the loop
\* reads no index out of range.
C2_SeriesCoverHorizon ==
    pc = "loop" =>
        /\ Len(monthly_salaries) >= args.months_to_relief
        /\ Len(monthly_interest_rates) >= args.months_to_relief

\* C3: for months_to_relief in 0..360 the loop makes exactly months_to_relief
\* iterations: while it runs, one month is recorded per iteration and the
\* next iteration is possible whatever the balance; it raises no IndexError;
\* and the three returned lists have exactly months_to_relief entries.
C3_FullHorizon ==
    /\ (pc = "loop" /\ args.months_to_relief <= DefaultMonthsToRelief) =>
          /\ i <= args.months_to_relief
          /\ Len(monthly_repayments) = i
          /\ Len(monthly_interest) = i
          /\ Len(monthly_balance) = i
          /\ i < args.months_to_relief =>
                /\ i < Len(monthly_salaries)
                /\ i < Len(monthly_interest_rates)
    /\ \A n \in 1..Len(returned) :
          /\ Len(returned[n].monthly_repayments) = returned[n].args.months_to_relief
          /\ Len(returned[n].monthly_interest) = returned[n].args.months_to_relief
          /\ Len(returned[n].monthly_balance) = returned[n].args.months_to_relief

\* A returned run that was paid off in its first month and still has all
\* the months of its horizon.
C3_Witness ==
    \E n \in 1..Len(returned) :
        /\ returned[n].args.months_to_relief >= 2
        /\ returned[n].args.loan_outstanding > 0
        /\ returned[n].monthly_balance[1] = 0
        /\ Len(returned[n].monthly_balance) = returned[n].args.months_to_relief

\* The full default horizon is returned too.
C3_WitnessDefaultHorizon ==
    \E n \in 1..Len(returned) :
        Len(returned[n].monthly_balance) = DefaultMonthsToRelief

\* The later run has the arguments of the returned run r, except that its
\* discretionary map has the one extra entry k.
ExtraEntry(r, k) ==
    /\ args.loan_outstanding = r.args.loan_outstanding
    /\ args.annual_salaries = r.args.annual_salaries
    /\ args.annual_rpis = r.args.annual_rpis
    /\ args.current_month = r.args.current_month
    /\ args.months_to_relief = r.args.months_to_relief
    /\ k \notin DOMAIN r.args.discretionary_repayments
    /\ DOMAIN args.discretionary_repayments =
          DOMAIN r.args.discretionary_repayments \cup {k}
    /\ \A m \in DOMAIN r.args.discretionary_repayments :
          args.discretionary_repayments[m] = r.args.discretionary_repayments[m]

\* The cap is inactive at month k of the running call.
CapInactive(k) ==
    FAdd(SalaryInstallment(k + 1), args.discretionary_repayments[k])
        <= FAdd(BalanceBefore(k + 1), monthly_interest[k + 1])

\* C4: when a second run differs from a first only by one extra entry
\* k -> X (X >= 0, 0 <= k < months_to_relief) of its discretionary map, and
\* the cap is inactive at month k of the second run, the second run's
\* repayment of month k is the first run's plus exactly X, and the months
\* before k are identical in both runs.
C4_ExtraRepayment ==
    Complete =>
        \A n \in 1..Len(returned) : \A k \in 0..(args.months_to_relief - 1) :
            (/\ ExtraEntry(returned[n], k)
             /\ args.discretionary_repayments[k] >= 0
             /\ CapInactive(k)) =>
                /\ monthly_repayments[k + 1] =
                      FAdd(returned[n].monthly_repayments[k + 1],
                           args.discretionary_repayments[k])
                /\ \A j \in 1..k :
                      /\ monthly_repayments[j] = returned[n].monthly_repayments[j]
                      /\ monthly_interest[j] = returned[n].monthly_interest[j]
                      /\ monthly_balance[j] = returned[n].monthly_balance[j]

\* Two such runs, the extra entry positive, at a month after the first and
\* on a salary that owes an installment.
C4_Witness ==
    /\ Complete
    /\ \E n \in 1..Len(returned) : \E k \in 1..(args.months_to_relief - 1) :
          /\ ExtraEntry(returned[n], k)
          /\ args.discretionary_repayments[k] > 0
          /\ CapInactive(k)
          /\ SalaryInstallment(k + 1) > 0
          /\ returned[n].monthly_repayments[k + 1] > 0

\* Every recorded month of the running call accrued less interest than the
\* installment due on the month's salary.
InterestBelowInstallment ==
    \A j \in Recorded : monthly_interest[j] < SalaryInstallment(j)

RepresentativeRun ==
    /\ pc = "loop"
    /\ Representative(args.loan_outstanding, args.annual_salaries, args.annual_rpis,
                      args.current_month, args.discretionary_repayments)
    /\ args.months_to_relief = DefaultMonthsToRelief

\* C6 as claimed: in the representative scenario no month's balance exceeds
\* the previous month's, and the balance reaches zero within the horizon.
C6_TrendsDownToZero ==
    (RepresentativeRun /\ Complete) =>
        /\ \A j \in Recorded : monthly_balance[j] <= BalanceBefore(j)
        /\ \E j \in Recorded : monthly_balance[j] = 0

\* C6 amended: in the representative scenario, for every current month,
\* the interest of every month exceeds the installment, every month's
\* balance exceeds the previous month's, and the balance never reaches zero
\* within the horizon.
C6_TrendsUpward ==
    RepresentativeRun =>
        \A j \in Recorded :
            /\ monthly_interest[j] > monthly_repayments[j]
            /\ monthly_balance[j] > BalanceBefore(j)
            /\ monthly_balance[j] > 0

\* The representative run at the end of its 360 months.
C6_Witness ==
    /\ RepresentativeRun
    /\ Complete
    /\ Len(monthly_balance) = DefaultMonthsToRelief
    /\ monthly_balance[DefaultMonthsToRelief] > args.loan_outstanding

\* s is t followed by copies of t's last element only.
PaddedWithLast(s, t) ==
    /\ Len(s) >= Len(t)
    /\ \A j \in 1..Len(s) : s[j] = IF j <= Len(t) THEN t[j] ELSE t[Len(t)]

\* The running call is a second call on the list objects of the returned call
\* r, both with the default map, r having been given lists shorter than 31.
SecondCallOnSameLists(r) ==
    /\ args.same_lists
    /\ args.by_default
    /\ r.args.by_default
    /\ r.args.annual_salaries # << >>
    /\ r.args.annual_rpis # << >>
    /\ Len(r.args.annual_salaries) < RELIEF_PERDIOD + 1
    /\ Len(r.args.annual_rpis) < RELIEF_PERDIOD + 1

\* C9: a second call with the very same list objects (shorter than 31
\* entries), the same other arguments and the default map returns the same
\* three sequences as the first, although the first call extended the lists
\* in place; the extension only appends copies of the last element.
C9_CallsIndependent ==
    (Complete /\ returned # << >>) =>
        LET r == returned[Len(returned)]
        IN  SecondCallOnSameLists(r) =>
                /\ monthly_repayments = r.monthly_repayments
                /\ monthly_interest = r.monthly_interest
                /\ monthly_balance = r.monthly_balance
                /\ PaddedWithLast(args.annual_salaries, r.args.annual_salaries)
                /\ PaddedWithLast(args.annual_rpis, r.args.annual_rpis)
                /\ Len(args.annual_salaries) > Len(r.args.annual_salaries)
                /\ Len(args.annual_rpis) > Len(r.args.annual_rpis)
                /\ default_repayments = EmptyMap

\* Such a second call, on lists whose elements differ, with months recorded.
C9_Witness ==
    /\ Complete
    /\ returned # << >>
    /\ SecondCallOnSameLists(returned[Len(returned)])
    /\ Len(returned[Len(returned)].args.annual_salaries) = 2
    /\ Len(returned[Len(returned)].args.annual_rpis) = 2
    /\ Len(monthly_balance) >= 2
    /\ monthly_balance[2] > 0

\* C10: once the recorded balance is 0 after some month, and the later
\* discretionary amounts are all >= 0, every later month records interest
\* 0, repayment 0 and balance 0, whatever the salaries and rates are.
C10_ZeroAbsorbing ==
    pc = "loop" =>
        \A k \in Recorded :
            monthly_balance[k] = 0 =>
                \A j \in (k + 1)..Len(monthly_balance) :
                    (\A m \in (k + 1)..j : ExtraOf(m) >= 0) =>
                        /\ monthly_interest[j] = 0
                        /\ monthly_repayments[j] = 0
                        /\ monthly_balance[j] = 0

\* A loan paid off in one month, followed by a month with an installment
\* due, a discretionary amount offered and a non-zero rate.
C10_Witness ==
    /\ pc = "loop"
    /\ \E k \in Recorded : \E j \in Recorded :
          /\ k < j
          /\ BalanceBefore(k) > 0
          /\ monthly_balance[k] = 0
          /\ FAdd(SalaryInstallment(j), ExtraOf(j)) > 0
          /\ monthly_interest_rates[j] # 0
          /\ monthly_balance[j] = 0

\* ------------------------------------------------------------------------
\* The transformers called on their own (specification SpecT)
\* ------------------------------------------------------------------------

SalaryVectorsT == { << >>, << 30000 >>, << 60000, 20000 >>,
                    Rep(RELIEF_PERDIOD, 40000) \o << 50000 >>,
                    Rep(RELIEF_PERDIOD + 2, 20000) }

RpiVectorsT == { << >>, << Hundredths(200) >>, << Hundredths(-100), Hundredths(500) >>,
                 Rep(RELIEF_PERDIOD - 1, Hundredths(150)) \o << Hundredths(300) >>,
                 Rep(RELIEF_PERDIOD, Hundredths(200)) \o << Hundredths(250) >>,
                 Rep(RELIEF_PERDIOD + 2, Hundredths(300)) }

InitT ==
    /\ pc = "idle"
    /\ annual_salaries \in SalaryVectorsT
    /\ annual_rpis \in RpiVectorsT
    /\ default_repayments = EmptyMap
    /\ args = NoArgs
    /\ loan_outstanding = 0
    /\ i = 0
    /\ discretionary_repayments = EmptyMap
    /\ monthly_salaries = << >>
    /\ monthly_interest_rates = << >>
    /\ monthly_repayments = << >>
    /\ monthly_interest = << >>
    /\ monthly_balance = << >>
    /\ returned = << >>
    /\ transformer_result = << >>

\* The caller's current month is the same in all its calls.
SameMonth(month) == args.fn = "" \/ month = args.current_month

TransformerArgs(fn, month) ==
    [NoArgs EXCEPT !.fn = fn, !.annual_salaries = annual_salaries,
                   !.annual_rpis = annual_rpis, !.current_month = month,
                   !.same_lists = TRUE]

\* The caller calls get_monthly_salary_array on its salary list, lines 77-91.
CallSalaryArray ==
    /\ pc = "idle"
    /\ \E month \in AllMonths :
        /\ SameMonth(month)
        /\ args' = TransformerArgs("get_monthly_salary_array", month)
        /\ IF annual_salaries = << >>
           THEN /\ pc' = "IndexError"
                /\ UNCHANGED << annual_salaries, transformer_result >>
           ELSE /\ annual_salaries' = salary_array_extend(annual_salaries)
                /\ IF MonthOk(month)
                   THEN /\ transformer_result' =
                              get_monthly_salary_array(annual_salaries, month,
                                                       MonthStr("april"))
                        /\ pc' = "idle"
                   ELSE /\ pc' = "ValueError"
                        /\ UNCHANGED transformer_result
    /\ UNCHANGED << annual_rpis, default_repayments, locals, returned >>

\* The caller calls get_monthly_interest_rate_array on its lists, lines 38-59.
CallInterestRateArray ==
    /\ pc = "idle"
    /\ \E month \in AllMonths :
        /\ SameMonth(month)
        /\ args' = TransformerArgs("get_monthly_interest_rate_array", month)
        /\ IF annual_salaries = << >>
           THEN /\ pc' = "IndexError"
                /\ UNCHANGED << annual_salaries, annual_rpis, transformer_result >>
           ELSE /\ annual_salaries' = extrapolate_array(annual_salaries, RELIEF_PERDIOD + 1)
                /\ IF annual_rpis = << >>
                   THEN /\ pc' = "IndexError"
                        /\ UNCHANGED << annual_rpis, transformer_result >>
                   ELSE /\ annual_rpis' = extrapolate_array(annual_rpis, RELIEF_PERDIOD + 1)
                        /\ IF MonthOk(month)
                           THEN /\ transformer_result' =
                                      get_monthly_interest_rate_array(
                                          annual_salaries, annual_rpis, month)
                                /\ pc' = "idle"
                           ELSE /\ pc' = "ValueError"
                                /\ UNCHANGED transformer_result
    /\ UNCHANGED << default_repayments, locals, returned >>

\* The caller calls get_monthly_discount_factor on its RPI list, lines 106-125.
CallDiscountFactor ==
    /\ pc = "idle"
    /\ \E month \in AllMonths :
        /\ SameMonth(month)
        /\ args' = TransformerArgs("get_monthly_discount_factor", month)
        /\ IF annual_rpis = << >>
           THEN /\ pc' = "IndexError"
                /\ UNCHANGED << annual_rpis, transformer_result >>
           ELSE /\ annual_rpis' = extrapolate_array(annual_rpis, RELIEF_PERDIOD + 1)
                /\ IF MonthOk(month)
                   THEN /\ transformer_result' =
                              get_monthly_discount_factor(annual_rpis, month)
                        /\ pc' = "idle"
                   ELSE /\ pc' = "ValueError"
                        /\ UNCHANGED transformer_result
    /\ UNCHANGED << annual_salaries, default_repayments, locals, returned >>

NextT == CallSalaryArray \/ CallInterestRateArray \/ CallDiscountFactor

SpecT == InitT /\ [][NextT]_vars

\* The last call was a call of fn that returned.
Returned(fn) == pc = "idle" /\ args.fn = fn

\* m of the claims: ((9 - c) mod 12), with 0 replaced by 12, for the month
\* number c of the month reference.
MonthsToSeptember(month) ==
    LET c == IF month.kind = "int" THEN month.num
             ELSE CHOOSE n \in 1..12 : MonthNames[n] = month.name
        d == (9 - c) % 12
    IN  IF d = 0 THEN 12 ELSE d

\* C7: for a non-empty annual_rpis of at most 31 entries,
\* get_monthly_discount_factor returns m + 360 entries (m months to
\* September, then 12 for each of 30 further years), whether or not the
\* input needed extrapolation.
C7_DiscountFactorLength ==
    (/\ Returned("get_monthly_discount_factor")
     /\ Len(args.annual_rpis) <= RELIEF_PERDIOD + 1) =>
        Len(transformer_result) = MonthsToSeptember(args.current_month) + 360

\* What the code returns: 12 entries more whenever it extrapolated, since
\* extrapolate_array pads to 32 entries and all but the first are laid out.
DiscountFactorLengthOfCode ==
    Returned("get_monthly_discount_factor") =>
        Len(transformer_result) =
            MonthsToSeptember(args.current_month)
              + (IF Len(args.annual_rpis) < RELIEF_PERDIOD + 1 THEN 372
                 ELSE 12 * (Len(args.annual_rpis) - 1))

\* The annual value of year y (0-based) of vector v: years beyond the end of
\* the vector use its last value.
YearValue(v, y) == IF y + 1 <= Len(v) THEN v[y + 1] ELSE v[Len(v)]

\* The rate the claim states for year y of the last call: the annual
\* interest rate of the year's salary and RPI, divided by 12.
ClaimedMonthlyRate(y) ==
    LET salary == YearValue(args.annual_salaries, y)
        rpi    == YearValue(args.annual_rpis, y)
        excess == salary - LOWER_INCOME_THRESHOLD
        width  == UPPER_INCOME_THRESHOLD - LOWER_INCOME_THRESHOLD
        share  == IF excess >= width THEN SCALE ELSE Fl(RoundDiv(excess * SCALE, width))
        annual == IF excess > 0 THEN Fl(rpi + Fl(3 * share)) ELSE rpi
    IN  Fl(RoundDiv(annual, 12))

\* C8: get_monthly_interest_rate_array returns m + 360 entries, m in 1..12
\* being the months to September (12 in September): the first m are the
\* rate of year 0 over 12, and entry k >= m is the rate of year
\* 1 + floor((k - m) / 12) over 12, years beyond the end of an input vector
\* using its last value.
C8_InterestRateLayout ==
    Returned("get_monthly_interest_rate_array") =>
        LET m == MonthsToSeptember(args.current_month)
        IN  /\ m \in 1..12
            /\ Len(transformer_result) = m + 360
            /\ \A k \in 0..(m + 359) :
                  transformer_result[k + 1] =
                      IF k < m THEN ClaimedMonthlyRate(0)
                      ELSE ClaimedMonthlyRate(1 + ((k - m) \div 12))

\* The call of the documentation's scenario shape: January, 8 leading
\* entries, and vectors whose years differ.
C8_Witness ==
    /\ Returned("get_monthly_interest_rate_array")
    /\ args.current_month = MonthStr("january")
    /\ Len(args.annual_salaries) = 2
    /\ Len(args.annual_rpis) = 2
    /\ transformer_result[1] = transformer_result[8]
    /\ transformer_result[8] # transformer_result[9]
    /\ transformer_result[9] = transformer_result[368]

\* A call in September: the first year takes 12 entries.
C8_WitnessSeptember ==
    /\ Returned("get_monthly_interest_rate_array")
    /\ args.current_month = MonthInt(9)
    /\ Len(args.annual_rpis) = RELIEF_PERDIOD + 1
    /\ Len(transformer_result) = 372

====
